---------------------------- MODULE Spec2Model ----------------------------
(***************************************************************************)
(* Form D ingestion pipeline (form_d_ingest.py): daily index fetch, index  *)
(* parsing, per-entry document fetch and parse, de-duplicating insert, and *)
(* the two entry points daily_update() and historical_90days(); and the    *)
(* response cache of the read API (nexthor_main.py).                       *)
(*                                                                         *)
(* Text is modelled as a sequence of atoms.  An atom is a one-character    *)
(* string (a digit, " ", "|", "/", "-", ":", "T") or a chunk standing for  *)
(* a run of characters holding no whitespace, "|" or "/" ("Acme",          *)
(* "doc.xml"); a chunk is never a digit.  A date is <<year, month, day>>;  *)
(* Python's None and the empty string are both the empty sequence.         *)
(***************************************************************************)
EXTENDS Integers, Sequences, FiniteSets, TLC

VARIABLES
    upIndex,      \* upstream: index URL -> response (status, lines); fixed
    upDocs,       \* upstream: document URL -> response; fixed
    db,           \* committed rows of table filings
    flushed,      \* rows INSERTed by the open transaction, not yet committed
    pending,      \* session.new: objects added but not yet flushed
    pc,           \* position of the running entry point
    mode,         \* "none", "daily", "historical", "parse"
    current,      \* the date being processed
    today,        \* upper end of the backfill window (exclusive)
    entries,      \* result of parse_index_lines for the current date
    i,            \* 1-based position in entries
    count,        \* process_daily's count of new records for the date
    lines,        \* lines of the fetched index body
    report,       \* what process_daily printed last for the current date
    raised,       \* the exception that left the try block, "none" if none
    failedAt,     \* where it was raised: "start", "index", "document", "commit"
    outcome,      \* how the last invocation ended: "none", "commit", "rollback"
    closed,       \* session.close() has run for the last invocation
    db0,          \* committed rows when the invocation opened its session
    fetched,      \* document URLs requested so far by this invocation
    unthrottled,  \* a document was requested and time.sleep has not run since
    stagedLog,    \* <<date, cik, filing_date>> for every insert_if_new = True
    attempted,    \* dates whose process_daily call returned normally
    prev,         \* the date of the invocation just before this one when that
                  \* was a daily_update that committed, else NoneVal
    cache_store,  \* read API: cache key -> <<data, timestamp>>
    clock,        \* read API: time.time(), in seconds
    backend,      \* read API: "up" or "down", whether the database answers
    origin,       \* read API: cache key -> the call whose result is stored there
    last          \* read API: the call just served, NoCall if the last step
                  \* was not a call

vars == <<upIndex, upDocs, db, flushed, pending, pc, mode, current, today,
          entries, i, count, lines, report, raised, failedAt, outcome, closed,
          db0, fetched, unthrottled, stagedLog, attempted, prev,
          cache_store, clock, backend, origin, last>>

ingestVars == <<upIndex, upDocs, db, flushed, pending, pc, mode, current, today,
                entries, i, count, lines, report, raised, failedAt, outcome,
                closed, db0, fetched, unthrottled, stagedLog, attempted, prev>>

cacheVars == <<cache_store, clock, backend, origin, last>>

-----------------------------------------------------------------------------
(* Text helpers *)

Digits == {"0", "1", "2", "3", "4", "5", "6", "7", "8", "9"}

DigitVal(c) ==
    CASE c = "0" -> 0 [] c = "1" -> 1 [] c = "2" -> 2 [] c = "3" -> 3
      [] c = "4" -> 4 [] c = "5" -> 5 [] c = "6" -> 6 [] c = "7" -> 7
      [] c = "8" -> 8 [] c = "9" -> 9

DigitChar(n) ==
    CASE n = 0 -> "0" [] n = 1 -> "1" [] n = 2 -> "2" [] n = 3 -> "3"
      [] n = 4 -> "4" [] n = 5 -> "5" [] n = 6 -> "6" [] n = 7 -> "7"
      [] n = 8 -> "8" [] n = 9 -> "9"

IsSpace(c) == c = " "

AllDigits(s) == \A k \in 1..Len(s) : s[k] \in Digits

RECURSIVE NumVal(_)
NumVal(s) == IF s = <<>> THEN 0
             ELSE 10 * NumVal(SubSeq(s, 1, Len(s) - 1)) + DigitVal(s[Len(s)])

\* s[:n]
Prefix(s, n) == SubSeq(s, 1, IF Len(s) < n THEN Len(s) ELSE n)

\* s[n:] with n counted from 0
Drop(s, n) == SubSeq(s, n + 1, Len(s))

\* str.strip()
RECURSIVE LStrip(_)
LStrip(s) == IF s # <<>> /\ IsSpace(Head(s)) THEN LStrip(Tail(s)) ELSE s

RECURSIVE RStrip(_)
RStrip(s) == IF s # <<>> /\ IsSpace(s[Len(s)])
             THEN RStrip(SubSeq(s, 1, Len(s) - 1)) ELSE s

Strip(s) == RStrip(LStrip(s))

\* str.split(sep): the fields between separators, empty fields included
RECURSIVE SplitAcc(_, _, _)
SplitAcc(s, sep, cur) ==
    IF s = <<>> THEN <<cur>>
    ELSE IF Head(s) = sep THEN <<cur>> \o SplitAcc(Tail(s), sep, <<>>)
    ELSE SplitAcc(Tail(s), sep, Append(cur, Head(s)))

Split(s, sep) == SplitAcc(s, sep, <<>>)

\* str.zfill(width): pad with "0" on the left, after a leading sign
RECURSIVE Zeros(_)
Zeros(n) == IF n <= 0 THEN <<>> ELSE <<"0">> \o Zeros(n - 1)

zfill(s, width) ==
    IF Len(s) >= width THEN s
    ELSE IF s # <<>> /\ Head(s) \in {"+", "-"}
         THEN <<Head(s)>> \o Zeros(width - Len(s)) \o Tail(s)
         ELSE Zeros(width - Len(s)) \o s

-----------------------------------------------------------------------------
(* Calendar helpers *)

NoneVal == <<>>

Truthy(v) == v # <<>>

IsLeap(y) == (y % 4 = 0 /\ y % 100 # 0) \/ y % 400 = 0

DaysInMonth(y, m) ==
    IF m = 2 THEN (IF IsLeap(y) THEN 29 ELSE 28)
    ELSE IF m \in {4, 6, 9, 11} THEN 30 ELSE 31

\* date + timedelta(days=1)
NextDay(d) ==
    IF d[3] < DaysInMonth(d[1], d[2]) THEN <<d[1], d[2], d[3] + 1>>
    ELSE IF d[2] < 12 THEN <<d[1], d[2] + 1, 1>>
    ELSE <<d[1] + 1, 1, 1>>

\* date - timedelta(days=1)
PrevDay(d) ==
    IF d[3] > 1 THEN <<d[1], d[2], d[3] - 1>>
    ELSE IF d[2] > 1 THEN <<d[1], d[2] - 1, DaysInMonth(d[1], d[2] - 1)>>
    ELSE <<d[1] - 1, 12, 31>>

\* date - timedelta(days=n), a month at a time
RECURSIVE MinusDays(_, _)
MinusDays(d, n) ==
    IF n < d[3] THEN <<d[1], d[2], d[3] - n>>
    ELSE MinusDays(PrevDay(<<d[1], d[2], 1>>), n - d[3])

\* current < today on dates
DateLess(a, b) ==
    \/ a[1] < b[1]
    \/ a[1] = b[1] /\ a[2] < b[2]
    \/ a[1] = b[1] /\ a[2] = b[2] /\ a[3] < b[3]

TwoDigits(n) == <<DigitChar(n \div 10), DigitChar(n % 10)>>

\* date.strftime('%Y%m%d')
strftime_compact(d) ==
    <<DigitChar(d[1] \div 1000), DigitChar((d[1] \div 100) % 10),
      DigitChar((d[1] \div 10) % 10), DigitChar(d[1] % 10)>>
    \o TwoDigits(d[2]) \o TwoDigits(d[3])

\* datetime.strptime(s, '%Y-%m-%d').date(): %Y is exactly four digits, %m
\* and %d one or two; anything else, or text left over, is a ValueError
strptime(s) ==
    LET p == Split(s, "-")
        wellShaped == /\ Len(p) = 3
                      /\ Len(p[1]) = 4 /\ AllDigits(p[1])
                      /\ Len(p[2]) \in {1, 2} /\ AllDigits(p[2])
                      /\ Len(p[3]) \in {1, 2} /\ AllDigits(p[3])
        y == NumVal(p[1])
        m == NumVal(p[2])
        dd == NumVal(p[3])
    IN  IF wellShaped /\ y >= 1 /\ m \in 1..12 /\ dd >= 1 /\ dd <= DaysInMonth(y, m)
        THEN [ok |-> TRUE, date |-> <<y, m, dd>>]
        ELSE [ok |-> FALSE, date |-> NoneVal]

-----------------------------------------------------------------------------
(* Index parser *)

HeaderLines == 11

TargetType == <<"D">>

SiteRoot == <<"https://www.sec.gov/">>

PathPrefix == <<"Archives", "/", "edgar", "/", "data", "/">>

\* length of the longest prefix of s whose atoms all satisfy the test
RECURSIVE DigitRun(_)
DigitRun(s) == IF s # <<>> /\ Head(s) \in Digits THEN 1 + DigitRun(Tail(s)) ELSE 0

RECURSIVE NonSpaceRun(_)
NonSpaceRun(s) == IF s # <<>> /\ ~IsSpace(Head(s)) THEN 1 + NonSpaceRun(Tail(s)) ELSE 0

\* re.match(r'Archives/edgar/data/(\d+)/(\S+)/(\S+)', filename): anchored at
\* the start only; both \S+ are greedy, so group 2 runs to the last "/" that
\* still leaves a non-empty group 3
path_match(filename) ==
    LET rest1 == Drop(filename, Len(PathPrefix))
        nd    == DigitRun(rest1)
        R     == Drop(rest1, nd + 1)
        T     == SubSeq(R, 1, NonSpaceRun(R))
        cuts  == {j \in 2..(Len(T) - 1) : T[j] = "/"}
        j     == CHOOSE c \in cuts : \A o \in cuts : o <= c
    IN  IF /\ Prefix(filename, Len(PathPrefix)) = PathPrefix
           /\ nd >= 1
           /\ Len(rest1) > nd /\ rest1[nd + 1] = "/"
           /\ cuts # {}
        THEN [matched |-> TRUE,
              group1  |-> SubSeq(rest1, 1, nd),
              group2  |-> SubSeq(T, 1, j - 1),
              group3  |-> SubSeq(T, j + 1, Len(T))]
        ELSE [matched |-> FALSE, group1 |-> <<>>, group2 |-> <<>>, group3 |-> <<>>]

\* [p.strip() for p in line.split('|') if p.strip()]
RECURSIVE StripNonEmpty(_)
StripNonEmpty(fs) ==
    IF fs = <<>> THEN <<>>
    ELSE IF Strip(Head(fs)) # <<>>
         THEN <<Strip(Head(fs))>> \o StripNonEmpty(Tail(fs))
         ELSE StripNonEmpty(Tail(fs))

line_parts(line) == StripNonEmpty(Split(line, "|"))

\* the body of the for loop of parse_index_lines for one line: the entries
\* it appends (none or one)
line_entries(line) ==
    LET parts == line_parts(line)
    IN  IF Len(parts) = 5 /\ parts[3] = TargetType
        THEN LET m == path_match(parts[5])
             IN  IF m.matched
                 THEN << [cik          |-> zfill(parts[1], 10),
                          company_name |-> parts[2],
                          filing_date  |-> parts[4],
                          accession    |-> m.group2,
                          filename     |-> m.group3,
                          raw_xml_url  |-> SiteRoot \o parts[5]] >>
                 ELSE <<>>
        ELSE <<>>

RECURSIVE parse_loop(_)
parse_loop(ls) ==
    IF ls = <<>> THEN <<>> ELSE line_entries(Head(ls)) \o parse_loop(Tail(ls))

\* variant: the loop ends at the first line that yields no entry
RECURSIVE parse_until_miss(_)
parse_until_miss(ls) ==
    IF ls = <<>> \/ line_entries(Head(ls)) = <<>> THEN <<>>
    ELSE line_entries(Head(ls)) \o parse_until_miss(Tail(ls))

parse_stops_at_miss(ls) == parse_until_miss(Drop(ls, HeaderLines))

parse_index_lines(ls) == parse_loop(Drop(ls, HeaderLines))

-----------------------------------------------------------------------------
(* Document fetcher and parser *)

\* an XML element looked up with root.find: absent, present without text
\* (text is None), or present with text
Absent == [present |-> FALSE, hastext |-> FALSE, text |-> <<>>]
NoText == [present |-> TRUE, hastext |-> FALSE, text |-> <<>>]
Elem(t) == [present |-> TRUE, hastext |-> TRUE, text |-> t]

EmptyDict == <<>>

Get(d, k) == IF k \in DOMAIN d THEN d[k] ELSE NoneVal

SetItem(d, k, v) == [x \in DOMAIN d \cup {k} |-> IF x = k THEN v ELSE d[x]]

\* the try block of parse_form_d_xml once ET.fromstring has succeeded
extract_fields(doc, raw_url) ==
    LET a  == doc.acceptanceDateTime
        c  == doc.companyName
        mi == doc.minimumInvestment
        date_str == IF a.present THEN Prefix(a.text, 10) ELSE NoneVal
        parsed   == strptime(date_str)
        filing_date == IF Truthy(date_str) THEN parsed.date ELSE NoneVal
    IN  IF a.present /\ ~a.hastext THEN [exc |-> "TypeError", value |-> EmptyDict]
        ELSE IF Truthy(date_str) /\ ~parsed.ok THEN [exc |-> "ValueError", value |-> EmptyDict]
        ELSE IF c.present /\ ~c.hastext THEN [exc |-> "AttributeError", value |-> EmptyDict]
        ELSE IF mi.present /\ ~mi.hastext THEN [exc |-> "AttributeError", value |-> EmptyDict]
        ELSE [exc |-> "none",
              value |-> [filing_date  |-> filing_date,
                         company_name |-> IF c.present THEN Strip(c.text) ELSE <<>>,
                         raise_amount |-> IF mi.present THEN Strip(mi.text) ELSE <<>>,
                         raw_xml_url  |-> raw_url]]

\* variant: the ParseError of a malformed document is not caught
parse_without_except(doc, raw_url) ==
    IF ~doc.wellformed THEN [exc |-> "ParseError", value |-> EmptyDict]
    ELSE extract_fields(doc, raw_url)

\* returns the exception that escapes ("none" if none) and the dict returned
parse_form_d_xml(doc, raw_url) ==
    IF ~doc.wellformed THEN [exc |-> "none", value |-> EmptyDict]
    ELSE extract_fields(doc, raw_url)

doc_url(cik, accession, primary_doc) ==
    SiteRoot \o PathPrefix \o cik \o <<"/">> \o accession \o <<"/">> \o primary_doc

NotFound == [status |-> 404, wellformed |-> FALSE, acceptanceDateTime |-> Absent,
             companyName |-> Absent, minimumInvestment |-> Absent,
             totalOfferingAmount |-> Absent]

\* requests.get(url) for a document, when the connection succeeds
DocResponse(docs, url) == IF url \in DOMAIN docs THEN docs[url] ELSE NotFound

\* returns the exception that escapes, whether None is returned, and the dict
\* variant: a non-success status of the document request raises
download_raising_on_status(docs, cik, accession, primary_doc) ==
    LET url  == doc_url(cik, accession, primary_doc)
        resp == DocResponse(docs, url)
        p    == parse_form_d_xml(resp, url)
    IN  IF resp.status = 200
        THEN [exc |-> p.exc, isNone |-> FALSE, data |-> SetItem(p.value, "cik", cik)]
        ELSE [exc |-> "HTTPError", isNone |-> FALSE, data |-> EmptyDict]

download_and_parse_xml(docs, cik, accession, primary_doc) ==
    LET url  == doc_url(cik, accession, primary_doc)
        resp == DocResponse(docs, url)
        p    == parse_form_d_xml(resp, url)
    IN  IF resp.status = 200
        THEN [exc |-> p.exc, isNone |-> FALSE, data |-> SetItem(p.value, "cik", cik)]
        ELSE [exc |-> "none", isNone |-> TRUE, data |-> EmptyDict]

-----------------------------------------------------------------------------
(* Storage and the de-duplicating writer *)

\* variant: the company name is taken into the identifying columns
KeyWithName(r) == <<r.cik, r.filing_date, r.company_name>>

\* UniqueConstraint('cik', 'filing_date'): the columns that identify a row
Key(r) == <<r.cik, r.filing_date>>

MaxOf(S) == IF S = {} THEN 0 ELSE CHOOSE x \in S : \A y \in S : y <= x

\* rows the open transaction sees: committed rows and its own INSERTs
Visible(rows, fl) == rows \cup fl

\* session.flush(): INSERT the pending objects in the order they were added;
\* an INSERT whose key is already visible raises IntegrityError
RECURSIVE Flush(_, _, _)
Flush(rows, fl, pend) ==
    IF pend = <<>> THEN [exc |-> "none", flushed |-> fl]
    ELSE LET obj == Head(pend)
             vis == Visible(rows, fl)
         IN  IF \E r \in vis : Key(r) = Key(obj)
             THEN [exc |-> "IntegrityError", flushed |-> fl]
             ELSE Flush(rows,
                        fl \cup {[obj EXCEPT !.id = MaxOf({r.id : r \in vis}) + 1]},
                        Tail(pend))

\* variant: the new row is marked as already enriched
FilingMarkedProcessed(data) ==
    [id           |-> 0,
     cik          |-> data["cik"],
     company_name |-> data["company_name"],
     raise_amount |-> data["raise_amount"],
     filing_date  |-> data["filing_date"],
     processed    |-> TRUE,
     raw_xml_url  |-> Get(data, "raw_xml_url"),
     ai_score     |-> 1]

Filing(data) ==
    [id           |-> 0,
     cik          |-> data["cik"],
     company_name |-> data["company_name"],
     raise_amount |-> data["raise_amount"],
     filing_date  |-> data["filing_date"],
     processed    |-> FALSE,
     raw_xml_url  |-> Get(data, "raw_xml_url"),
     ai_score     |-> 0]

\* variant: the record is not tested for its cik and filing date
insert_without_validation(rows, fl, pend, data) ==
    LET obj == [id           |-> 0,
                cik          |-> Get(data, "cik"),
                company_name |-> Get(data, "company_name"),
                raise_amount |-> Get(data, "raise_amount"),
                filing_date  |-> Get(data, "filing_date"),
                processed    |-> FALSE,
                raw_xml_url  |-> Get(data, "raw_xml_url"),
                ai_score     |-> 0]
        f == Flush(rows, fl, pend)
    IN  IF f.exc # "none"
        THEN [exc |-> f.exc, flushed |-> f.flushed, pending |-> pend,
              result |-> FALSE]
        ELSE IF \A r \in Visible(rows, f.flushed) : Key(r) # Key(obj)
        THEN [exc |-> "none", flushed |-> f.flushed, pending |-> <<obj>>,
              result |-> TRUE]
        ELSE [exc |-> "none", flushed |-> f.flushed, pending |-> <<>>,
              result |-> FALSE]

\* variant: the record is added without looking for an existing row
insert_without_lookup(rows, fl, pend, data) ==
    IF ~Truthy(Get(data, "filing_date")) \/ ~Truthy(Get(data, "cik"))
    THEN [exc |-> "none", flushed |-> fl, pending |-> pend, result |-> FALSE]
    ELSE [exc |-> "none", flushed |-> fl,
          pending |-> Append(pend, Filing(data)), result |-> TRUE]

\* variant: the query does not flush the session first, so it sees only
\* rows that were already INSERTed
insert_without_autoflush(rows, fl, pend, data) ==
    IF ~Truthy(Get(data, "filing_date")) \/ ~Truthy(Get(data, "cik"))
    THEN [exc |-> "none", flushed |-> fl, pending |-> pend, result |-> FALSE]
    ELSE LET existing == {r \in Visible(rows, fl) : Key(r) = Key(data)}
         IN  IF existing = {}
             THEN [exc |-> "none", flushed |-> fl,
                   pending |-> Append(pend, Filing(data)), result |-> TRUE]
             ELSE [exc |-> "none", flushed |-> fl, pending |-> pend,
                   result |-> FALSE]

\* returns the exception that escapes, the session afterwards and the result
insert_if_new(rows, fl, pend, data) ==
    IF ~Truthy(Get(data, "filing_date")) \/ ~Truthy(Get(data, "cik"))
    THEN [exc |-> "none", flushed |-> fl, pending |-> pend, result |-> FALSE]
    ELSE LET f == Flush(rows, fl, pend)      \* autoflush before the query
             existing == {r \in Visible(rows, f.flushed) :
                             Key(r) = Key(data)}
         IN  IF f.exc # "none"
             THEN [exc |-> f.exc, flushed |-> f.flushed, pending |-> pend,
                   result |-> FALSE]
             ELSE IF existing = {}
             THEN [exc |-> "none", flushed |-> f.flushed,
                   pending |-> <<Filing(data)>>, result |-> TRUE]
             ELSE [exc |-> "none", flushed |-> f.flushed, pending |-> <<>>,
                   result |-> FALSE]

-----------------------------------------------------------------------------
(* Upstream fixtures *)

Cik42 == <<"4", "2">>

ExampleCik == <<"0", "0", "0", "1", "2", "3", "4", "5", "6", "7">>

Compact15 == <<"2", "0", "2", "4", "0", "1", "1", "5">>

Stamp15 == <<"2", "0", "2", "4", "-", "0", "1", "-", "1", "5",
             "T", "1", "0", ":", "0", "0", ":", "0", "0">>

Stamp16 == <<"2", "0", "2", "4", "-", "0", "1", "-", "1", "6",
             "T", "0", "9", ":", "3", "0", ":", "0", "0">>

\* a timestamp written day first: its first 10 characters are not %Y-%m-%d
StampDayFirst == <<"1", "5", "-", "0", "1", "-", "2", "0", "2", "4",
                   "T", "1", "0", ":", "0", "0", ":", "0", "0">>

ArchPath(cik, acc, doc) == PathPrefix \o cik \o <<"/", acc, "/", doc>>

IdxLine(cik, name, type, date, path) ==
    cik \o <<"|">> \o name \o <<"|">> \o type \o <<"|">> \o date \o <<"|">> \o path

LineA == IdxLine(Cik42, <<"Acme">>, <<"D">>, Compact15,
                 ArchPath(Cik42, "acc1", "doc.xml"))

LineB == IdxLine(Cik42, <<"Acme">>, <<"D">>, Compact15,
                 ArchPath(Cik42, "acc2", "doc.xml"))

\* the amendment variant of the filing type
LineAmend == IdxLine(Cik42, <<"Acme">>, <<"D", "/", "A">>, Compact15,
                     ArchPath(Cik42, "acc2", "doc.xml"))

\* the form the registry publishes and the specification's example uses: the
\* path starts at edgar/, without the Archives/ directory
LineExample ==
    IdxLine(ExampleCik, <<"Example", " ", "Corp">>, <<"D">>, Compact15,
            <<"edgar", "/", "data", "/", "1", "2", "3", "4", "5", "6", "7", "/",
              "0001437749-24-001122", "/", "primary_doc.xml">>)

LineShort == Cik42 \o <<"|", "Acme", "|", "D">>

LineOther == IdxLine(<<"7">>, <<"Beta">>, <<"1", "0", "-", "K">>, Compact15,
                     ArchPath(<<"7">>, "acc7", "doc.htm"))

LinePadded == IdxLine(<<" ">> \o Cik42 \o <<" ">>, <<" ", "Acme", " ", "Inc", " ">>,
                      <<" ", "D", " ">>, Compact15 \o <<" ">>,
                      <<" ">> \o ArchPath(Cik42, "acc4", "doc.xml"))

\* a row whose company name is blank
LineBlankName == IdxLine(Cik42, <<" ">>, <<"D">>, Compact15,
                         ArchPath(Cik42, "acc5", "doc.xml"))

\* a row whose document lies one directory deeper
LineDeep == IdxLine(<<"7">>, <<"Beta">>, <<"D">>, Compact15,
                    PathPrefix \o <<"7", "/", "acc6", "/", "sub", "/", "doc.xml">>)

\* a row whose path holds whitespace after the document name
LineSpaced == IdxLine(<<"7">>, <<"Beta">>, <<"D">>, Compact15,
                      ArchPath(<<"7">>, "acc8", "doc.xml") \o <<" ", "old">>)

\* the 11 lines that precede the data rows of a daily master index
HeaderBlock ==
    << <<"Description:", " ", "Daily", " ", "Index">>,
       <<"Last", " ", "Data", " ", "Received:">>,
       <<"Comments:">>,
       <<"Anonymous", " ", "FTP:">>,
       <<>>, <<>>, <<>>, <<>>, <<>>,
       <<"CIK", "|", "Company", " ", "Name", "|", "Form", " ", "Type", "|",
         "Date", " ", "Filed", "|", "File", " ", "Name">>,
       <<"--------">> >>

MarkupAtoms == {"<!DOCTYPE", "<html>"}

\* the page the registry serves to a blocked requester
MarkupBody ==
    << <<"<!DOCTYPE", " ", "html>">>, <<"<html>">>, <<"<head>">>,
       <<"<title>", "Request", " ", "Rate", " ", "Threshold", "</title>">>,
       <<"</head>">>, <<"<body>">>, <<"<h1>", "Undeclared", "</h1>">>,
       <<"<p>", "a">>, <<"<p>", "b">>, <<"<p>", "c">>, <<"<p>", "d">>,
       <<"<p>", "e">>, <<"</body>">>, <<"</html>">> >>

IsMarkup(ls) == ls # <<>> /\ ls[1] # <<>> /\ ls[1][1] \in MarkupAtoms

IndexOk(data) == [status |-> 200, lines |-> HeaderBlock \o data]

IndexBlocked == [status |-> 200, lines |-> MarkupBody]

IndexMissing == [status |-> 404, lines |-> <<>>]

Doc(accept, company, mininv, total) ==
    [status |-> 200, wellformed |-> TRUE, acceptanceDateTime |-> accept,
     companyName |-> company, minimumInvestment |-> mininv,
     totalOfferingAmount |-> total]

DocGood15 == Doc(Elem(Stamp15), Elem(<<" ", "Acme", " ">>),
                 Elem(<<"2", "5", "0", "0", "0">>), Elem(<<"5", "0", "0">>))

DocGood15b == Doc(Elem(Stamp15), Elem(<<"Acme", " ", "Two">>), Absent, Absent)

DocGood16 == Doc(Elem(Stamp16), Elem(<<"Acme">>), Elem(<<"1", "0">>), Absent)

DocNoStamp == Doc(Absent, Elem(<<"Acme">>), Elem(<<"1", "0">>), Absent)

DocDayFirst == Doc(Elem(StampDayFirst), Elem(<<"Acme">>), Absent, Absent)

DocEmptyName == Doc(Elem(Stamp15), NoText, Absent, Absent)

DocMalformed == [Doc(Absent, Absent, Absent, Absent) EXCEPT !.wellformed = FALSE]

DocExample == Doc(Elem(Stamp15), Elem(<<"Example", " ", "Corp">>), Absent,
                  Elem(<<"5", "0", "0", "0", "0", "0", "0">>))

TodayDate == <<2024, 1, 17>>

Day15 == <<2024, 1, 15>>

Day16 == <<2024, 1, 16>>

HistoryDays == 90

\* get_daily_idx_url(year, quarter, date_str)
get_daily_idx_url(year, quarter, date_str) ==
    [year |-> year, quarter |-> quarter, date_str |-> date_str]

Quarter(d) == ((d[2] - 1) \div 3) + 1

IndexUrlOf(d) == get_daily_idx_url(d[1], Quarter(d), strftime_compact(d))

\* requests.get(url) for an index, when the connection succeeds
IndexResponse(idx, url) == IF url \in DOMAIN idx THEN idx[url] ELSE IndexMissing

UrlA == doc_url(zfill(Cik42, 10), <<"acc1">>, <<"doc.xml">>)

UrlB == doc_url(zfill(Cik42, 10), <<"acc2">>, <<"doc.xml">>)

UrlExample == doc_url(ExampleCik, <<"0001437749-24-001122">>, <<"primary_doc.xml">>)

Index15Choices == {IndexOk(<<LineA, LineB>>), IndexOk(<<LineExample>>), IndexBlocked}

Index16Choices == {IndexOk(<<LineAmend, LineB>>), IndexOk(<<LineA>>), IndexMissing}

DocAChoices == {DocGood15, DocDayFirst, DocMalformed, NotFound}

DocBChoices == {DocGood15b, DocGood16, DocNoStamp, NotFound}

\* TEST_DATE: unset, two dates, and text that is no date
TestDateChoices == {NoneVal, Prefix(Stamp15, 10), Prefix(Stamp16, 10),
                    <<"2", "0", "2", "4", "-", "1", "3", "-", "0", "1">>}

-----------------------------------------------------------------------------
(* The run orchestrator *)

\* no call of the read API has been made: cache_store = {}
NoCall == [func |-> "none", kwargs |-> <<>>, invoked |-> FALSE,
           result |-> <<>>, age |-> 0]

CacheIdle ==
    /\ cache_store = <<>>
    /\ clock = 0
    /\ backend = "up"
    /\ origin = <<>>
    /\ last = NoCall

Init ==
    /\ \E i15 \in Index15Choices, i16 \in Index16Choices :
          upIndex = (IndexUrlOf(Day15) :> i15) @@ (IndexUrlOf(Day16) :> i16)
    /\ \E da \in DocAChoices, dbb \in DocBChoices :
          upDocs = (UrlA :> da) @@ (UrlB :> dbb) @@ (UrlExample :> DocExample)
    /\ db = {}
    /\ flushed = {}
    /\ pending = <<>>
    /\ pc = "idle"
    /\ mode = "none"
    /\ current = NoneVal
    /\ today = TodayDate
    /\ entries = <<>>
    /\ i = 1
    /\ count = 0
    /\ lines = <<>>
    /\ report = "none"
    /\ raised = "none"
    /\ failedAt = "none"
    /\ outcome = "none"
    /\ closed = FALSE
    /\ db0 = {}
    /\ fetched = <<>>
    /\ unthrottled = FALSE
    /\ stagedLog = {}
    /\ attempted = {}
    /\ prev = NoneVal
    /\ CacheIdle

\* session = SessionLocal() and the state a fresh invocation starts from
OpenSession ==
    /\ pc \in {"idle", "done"}
    /\ flushed' = {}
    /\ pending' = <<>>
    /\ entries' = <<>>
    /\ i' = 1
    /\ count' = 0
    /\ lines' = <<>>
    /\ report' = "none"
    /\ outcome' = "none"
    /\ closed' = FALSE
    /\ db0' = db
    /\ fetched' = <<>>
    /\ unthrottled' = FALSE
    /\ stagedLog' = {}
    /\ attempted' = {}
    /\ prev' = IF pc = "done" /\ mode = "daily" /\ outcome = "commit"
               THEN current ELSE NoneVal
    /\ UNCHANGED <<upIndex, upDocs, db>>
    /\ UNCHANGED cacheVars

\* daily_update() up to the call of process_daily
DailyStart ==
    \E test_date_str \in TestDateChoices :
        LET p == strptime(test_date_str)
            yesterday == IF Truthy(test_date_str) THEN p.date ELSE PrevDay(TodayDate)
        IN  /\ OpenSession
            /\ mode' = "daily"
            /\ today' = TodayDate
            /\ IF Truthy(test_date_str) /\ ~p.ok
               THEN /\ raised' = "ValueError"
                    /\ failedAt' = "start"
                    /\ current' = NoneVal
                    /\ pc' = "except"
               ELSE /\ raised' = "none"
                    /\ failedAt' = "none"
                    /\ current' = yesterday
                    /\ pc' = "fetch_index"

\* historical_90days() up to the first call of process_daily
HistoricalStart ==
    /\ OpenSession
    /\ mode' = "historical"
    /\ today' = TodayDate
    /\ raised' = "none"
    /\ failedAt' = "none"
    /\ current' = MinusDays(TodayDate, HistoryDays)
    /\ pc' = IF DateLess(MinusDays(TodayDate, HistoryDays), TodayDate)
             THEN "fetch_index" ELSE "commit"

\* variant: a non-success status of the index request raises, as
\* raise_for_status() would
FetchIndexRaisesOnStatus ==
    /\ pc = "fetch_index"
    /\ \E net_ok \in BOOLEAN :
          LET resp == IndexResponse(upIndex, IndexUrlOf(current))
          IN  IF ~net_ok
              THEN /\ raised' = "ConnectionError"
                   /\ failedAt' = "index"
                   /\ pc' = "except"
                   /\ UNCHANGED <<lines, entries, count, i, report>>
              ELSE IF resp.status = 200
              THEN /\ lines' = resp.lines
                   /\ entries' = parse_index_lines(resp.lines)
                   /\ count' = 0
                   /\ i' = 1
                   /\ report' = "found"
                   /\ pc' = "loop"
                   /\ UNCHANGED <<raised, failedAt>>
              ELSE /\ raised' = "HTTPError"
                   /\ failedAt' = "index"
                   /\ pc' = "except"
                   /\ UNCHANGED <<lines, entries, count, i, report>>
    /\ UNCHANGED <<upIndex, upDocs, db, flushed, pending, mode, current, today,
                   outcome, closed, db0, fetched, unthrottled, stagedLog,
                   attempted, prev>>
    /\ UNCHANGED cacheVars

\* process_daily: the index request and parse_index_lines
FetchIndex ==
    /\ pc = "fetch_index"
    /\ \E net_ok \in BOOLEAN :
          LET resp == IndexResponse(upIndex, IndexUrlOf(current))
          IN  IF ~net_ok
              THEN /\ raised' = "ConnectionError"
                   /\ failedAt' = "index"
                   /\ pc' = "except"
                   /\ UNCHANGED <<lines, entries, count, i, report>>
              ELSE IF resp.status = 200
              THEN /\ lines' = resp.lines
                   /\ entries' = parse_index_lines(resp.lines)
                   /\ count' = 0
                   /\ i' = 1
                   /\ report' = "found"
                   /\ pc' = "loop"
                   /\ UNCHANGED <<raised, failedAt>>
              ELSE /\ report' = "fetch_fail"
                   /\ pc' = "returned"
                   /\ UNCHANGED <<lines, entries, count, i, raised, failedAt>>
    /\ UNCHANGED <<upIndex, upDocs, db, flushed, pending, mode, current, today,
                   outcome, closed, db0, fetched, unthrottled, stagedLog,
                   attempted, prev>>
    /\ UNCHANGED cacheVars

\* process_daily: one pass of the entry loop up to time.sleep
LoopEntry ==
    /\ pc = "loop"
    /\ i <= Len(entries)
    /\ LET entry == entries[i]
           url   == doc_url(entry.cik, entry.accession, entry.filename)
           d     == download_and_parse_xml(upDocs, entry.cik, entry.accession,
                                           entry.filename)
           r     == insert_if_new(db, flushed, pending, d.data)
       IN  /\ fetched' = Append(fetched, url)
           /\ unthrottled' = TRUE
           /\ \E net_ok \in BOOLEAN :
                 IF ~net_ok
                 THEN /\ raised' = "ConnectionError"
                      /\ failedAt' = "document"
                      /\ pc' = "except"
                      /\ UNCHANGED <<flushed, pending, count, stagedLog>>
                 ELSE IF d.exc # "none"
                 THEN /\ raised' = d.exc
                      /\ failedAt' = "document"
                      /\ pc' = "except"
                      /\ UNCHANGED <<flushed, pending, count, stagedLog>>
                 ELSE IF d.isNone
                 THEN /\ pc' = "sleep"
                      /\ UNCHANGED <<flushed, pending, count, stagedLog, raised,
                                     failedAt>>
                 ELSE IF r.exc # "none"
                 THEN /\ raised' = r.exc
                      /\ failedAt' = "document"
                      /\ pc' = "except"
                      /\ flushed' = r.flushed
                      /\ pending' = r.pending
                      /\ UNCHANGED <<count, stagedLog>>
                 ELSE /\ flushed' = r.flushed
                      /\ pending' = r.pending
                      /\ count' = IF r.result THEN count + 1 ELSE count
                      /\ stagedLog' = IF r.result
                                      THEN stagedLog \cup
                                           {<<current, d.data["cik"],
                                              d.data["filing_date"]>>}
                                      ELSE stagedLog
                      /\ pc' = "sleep"
                      /\ UNCHANGED <<raised, failedAt>>
    /\ UNCHANGED <<upIndex, upDocs, db, mode, current, today, entries, i, lines,
                   report, outcome, closed, db0, attempted, prev>>
    /\ UNCHANGED cacheVars

\* process_daily: time.sleep(0.2) and the step to the next entry
Throttle ==
    /\ pc = "sleep"
    /\ unthrottled' = FALSE
    /\ i' = i + 1
    /\ pc' = "loop"
    /\ UNCHANGED <<upIndex, upDocs, db, flushed, pending, mode, current, today,
                   entries, count, lines, report, raised, failedAt, outcome, closed, db0,
                   fetched, stagedLog, attempted, prev>>
    /\ UNCHANGED cacheVars

\* variant: the loop may be left before its last entry
EndLoopEarly ==
    /\ pc = "loop"
    /\ report' = "added"
    /\ pc' = "returned"
    /\ UNCHANGED <<upIndex, upDocs, db, flushed, pending, mode, current, today,
                   entries, i, count, lines, raised, failedAt, outcome, closed, db0,
                   fetched, unthrottled, stagedLog, attempted, prev>>
    /\ UNCHANGED cacheVars

\* process_daily: the loop is exhausted, "Added count new" is printed
EndLoop ==
    /\ pc = "loop"
    /\ i > Len(entries)
    /\ report' = "added"
    /\ pc' = "returned"
    /\ UNCHANGED <<upIndex, upDocs, db, flushed, pending, mode, current, today,
                   entries, i, count, lines, raised, failedAt, outcome, closed, db0,
                   fetched, unthrottled, stagedLog, attempted, prev>>
    /\ UNCHANGED cacheVars

\* process_daily has returned: daily_update goes on to commit,
\* historical_90days to the next date of the window
Returned ==
    /\ pc = "returned"
    /\ attempted' = attempted \cup {current}
    /\ IF mode = "historical"
       THEN /\ current' = NextDay(current)
            /\ pc' = IF DateLess(NextDay(current), today)
                     THEN "fetch_index" ELSE "commit"
       ELSE /\ pc' = "commit"
            /\ UNCHANGED current
    /\ UNCHANGED <<upIndex, upDocs, db, flushed, pending, mode, today, entries,
                   i, count, lines, report, raised, failedAt, outcome, closed, db0,
                   fetched, unthrottled, stagedLog, prev>>
    /\ UNCHANGED cacheVars

\* session.commit(): flush what is pending, then make the INSERTs durable
Commit ==
    /\ pc = "commit"
    /\ LET f == Flush(db, flushed, pending)
       IN  IF f.exc # "none"
           THEN /\ raised' = f.exc
                /\ failedAt' = "commit"
                /\ flushed' = f.flushed
                /\ pc' = "except"
                /\ UNCHANGED <<db, pending, outcome>>
           ELSE /\ db' = db \cup f.flushed
                /\ flushed' = {}
                /\ pending' = <<>>
                /\ outcome' = "commit"
                /\ pc' = "close"
                /\ UNCHANGED <<raised, failedAt>>
    /\ UNCHANGED <<upIndex, upDocs, mode, current, today, entries, i, count,
                   lines, report, closed, db0, fetched, unthrottled, stagedLog,
                   attempted, prev>>
    /\ UNCHANGED cacheVars

\* variant: the handler commits what was staged instead of discarding it
RollbackKeepsStaged ==
    /\ pc = "except"
    /\ db' = db \cup flushed
    /\ flushed' = {}
    /\ pending' = <<>>
    /\ outcome' = "rollback"
    /\ pc' = "close"
    /\ UNCHANGED <<upIndex, upDocs, mode, current, today, entries, i, count,
                   lines, report, raised, failedAt, closed, db0, fetched,
                   unthrottled, stagedLog, attempted, prev>>
    /\ UNCHANGED cacheVars

\* except Exception: session.rollback()
Rollback ==
    /\ pc = "except"
    /\ flushed' = {}
    /\ pending' = <<>>
    /\ outcome' = "rollback"
    /\ pc' = "close"
    /\ UNCHANGED <<upIndex, upDocs, db, mode, current, today, entries, i, count,
                   lines, report, raised, failedAt, closed, db0, fetched, unthrottled,
                   stagedLog, attempted, prev>>
    /\ UNCHANGED cacheVars

\* finally: session.close()
Close ==
    /\ pc = "close"
    /\ closed' = TRUE
    /\ pc' = "done"
    /\ UNCHANGED <<upIndex, upDocs, db, flushed, pending, mode, current, today,
                   entries, i, count, lines, report, raised, failedAt, outcome, db0,
                   fetched, unthrottled, stagedLog, attempted, prev>>
    /\ UNCHANGED cacheVars

Next ==
    \/ DailyStart
    \/ HistoricalStart
    \/ FetchIndex
    \/ LoopEntry
    \/ Throttle
    \/ EndLoop
    \/ Returned
    \/ Commit
    \/ Rollback
    \/ Close

Spec == Init /\ [][Next]_vars

-----------------------------------------------------------------------------
(* Properties *)

\* the record a successfully parsed document at url resolves to
ResolvedAt(url) == parse_form_d_xml(DocResponse(upDocs, url), url)

Resolves(url) == DocResponse(upDocs, url).status = 200 /\ ResolvedAt(url).exc = "none"

\* C1: no two stored filing records share both cik and filingDate, whatever
\* sequence of single-date and backfill runs, committed or rolled back, has
\* been made against the storage.
C1_UniqueCikDate ==
    \A r1 \in db : \A r2 \in db :
        (r1.cik = r2.cik /\ r1.filing_date = r2.filing_date) => r1 = r2

\* a committed run that fetched a second document resolving to the date of a
\* row it stored from another document
C1_Witness ==
    /\ pc = "done" /\ outcome = "commit" /\ db # {}
    /\ \E r \in db : \E k \in 1..Len(fetched) :
          /\ fetched[k] # r.raw_xml_url
          /\ Resolves(fetched[k])
          /\ Get(ResolvedAt(fetched[k]).value, "filing_date") = r.filing_date

\* the invocation follows directly on a committed daily_update for the same date
SecondRunOfDate == mode = "daily" /\ current # NoneVal /\ prev = current

\* C2: a single-date run that follows a committed single-date run for the
\* same date, upstream unchanged, stages nothing and counts zero new records
\* at every point of the run, and leaves storage as the first run left it.
C2_SecondRunAddsNothing ==
    SecondRunOfDate =>
        /\ count = 0
        /\ stagedLog = {}
        /\ flushed = {}
        /\ pending = <<>>
        /\ db = db0

\* the second run committed after fetching a document that the first run stored
C2_Witness ==
    /\ SecondRunOfDate
    /\ pc = "done" /\ outcome = "commit"
    /\ \E r \in db : \E k \in 1..Len(fetched) : fetched[k] = r.raw_xml_url

\* C3: in backfill mode every date is its own unit of work: when the run has
\* ended, the records staged for every date whose processing returned
\* normally are in storage, whatever happened on another date of the window.
C3_BackfillDayScoped ==
    (pc = "done" /\ mode = "historical") =>
        \A t \in stagedLog :
            t[1] \in attempted =>
                \E r \in db : r.cik = t[2] /\ r.filing_date = t[3]

\* C4: when an exception ends an invocation, storage afterwards is exactly
\* what it was when the invocation began and nothing staged is left.
C4_RollbackRestoresStorage ==
    (pc \in {"close", "done"} /\ outcome = "rollback") =>
        /\ db = db0
        /\ flushed = {}
        /\ pending = <<>>

\* a single-date run that was rolled back after it had staged a record
C4_Witness ==
    /\ pc = "done" /\ mode = "daily" /\ outcome = "rollback"
    /\ stagedLog # {}
    /\ failedAt = "document"

\* C5: a network failure on one entry's document skips that entry only: the
\* run still commits, every entry of the index has been fetched, and what was
\* staged is stored.
C5_NetworkFailureSkipsEntry ==
    (pc = "done" /\ mode = "daily" /\ failedAt = "document"
                 /\ raised = "ConnectionError") =>
        /\ outcome = "commit"
        /\ Len(fetched) = Len(entries)
        /\ \A t \in stagedLog : \E r \in db : r.cik = t[2] /\ r.filing_date = t[3]

\* C6: when the index body is markup, the date's run reports Blocked and
\* fetches no document.
C6_BlockedIndexReported ==
    (pc = "returned" /\ mode = "daily"
                     /\ IndexResponse(upIndex, IndexUrlOf(current)).status = 200
                     /\ IsMarkup(IndexResponse(upIndex, IndexUrlOf(current)).lines)) =>
        /\ report = "blocked"
        /\ fetched = <<>>

\* C7: a document fetch is always followed by the throttle delay: while a
\* fetch has not been followed by the delay, the delay is the next step.
C7_ThrottleAfterEveryFetch == unthrottled => pc = "sleep"

\* C8: a single-date run over an index holding only the example line, on
\* empty storage, stores exactly one record with the example's values.
C8_ExampleLineStored ==
    (pc = "done" /\ mode = "daily" /\ current = Day15 /\ db0 = {}
                 /\ outcome = "commit"
                 /\ upIndex[IndexUrlOf(Day15)] = IndexOk(<<LineExample>>)) =>
        \E r \in db :
            /\ db = {r}
            /\ r.cik = ExampleCik
            /\ r.company_name = <<"Example", " ", "Corp">>
            /\ r.raise_amount = <<"5", "0", "0", "0", "0", "0", "0">>
            /\ r.filing_date = Day15

-----------------------------------------------------------------------------
(* The index parser on its own *)

MaxDataLines == 2

ParseLines == {LineA, LineAmend, LineExample, LineShort, LineOther, LinePadded,
               LineBlankName, LineDeep, LineSpaced}

ParseInputs == UNION {[1..n -> ParseLines] : n \in 0..MaxDataLines}

InitParse ==
    /\ upIndex = <<>>
    /\ upDocs = <<>>
    /\ db = {}
    /\ flushed = {}
    /\ pending = <<>>
    /\ pc = "parse_input"
    /\ mode = "parse"
    /\ current = NoneVal
    /\ today = TodayDate
    /\ entries = <<>>
    /\ i = 1
    /\ count = 0
    /\ \E data \in ParseInputs : lines = HeaderBlock \o data
    /\ report = "none"
    /\ raised = "none"
    /\ failedAt = "none"
    /\ outcome = "none"
    /\ closed = FALSE
    /\ db0 = {}
    /\ fetched = <<>>
    /\ unthrottled = FALSE
    /\ stagedLog = {}
    /\ attempted = {}
    /\ prev = NoneVal
    /\ CacheIdle

\* entries = parse_index_lines(lines)
ParseStep ==
    /\ pc = "parse_input"
    /\ entries' = parse_index_lines(lines)
    /\ pc' = "parsed"
    /\ UNCHANGED <<upIndex, upDocs, db, flushed, pending, mode, current, today,
                   i, count, lines, report, raised, failedAt, outcome, closed,
                   db0, fetched, unthrottled, stagedLog, attempted, prev>>
    /\ UNCHANGED cacheVars

NextParse == ParseStep

SpecParse == InitParse /\ [][NextParse]_vars

\* positions of the data lines in the index text
DataRows == (HeaderLines + 1)..Len(lines)

IsBlank(f) == \A k \in 1..Len(f) : IsSpace(f[k])

\* the trimmed text of a field: the part from its first to its last
\* non-blank character
Trimmed(f) ==
    LET ks == {k \in 1..Len(f) : ~IsSpace(f[k])}
    IN  IF ks = {} THEN <<>>
        ELSE SubSeq(f, CHOOSE a \in ks : \A b \in ks : a <= b,
                       CHOOSE a \in ks : \A b \in ks : b <= a)

\* the fields of a line that are not blank, trimmed, in order
NonBlankFields(line) ==
    LET raw == Split(line, "|")
        trim == [k \in 1..Len(raw) |-> Trimmed(raw[k])]
    IN  SelectSeq(trim, LAMBDA f : f # <<>>)

\* the ways to read a path as Archives/edgar/data/{digits}/{accession}/{doc},
\* accession and doc being non-empty and free of whitespace, doc free of "/",
\* and the path ending or going on with whitespace after doc
LayoutReadings(path) ==
    LET n == Len(PathPrefix)
    IN  {t \in (1..Len(path)) \X (1..Len(path)) \X (1..Len(path)) :
            /\ SubSeq(path, 1, n) = PathPrefix
            /\ t[1] > n /\ t[1] < t[2] - 1 /\ t[2] < t[3]
            /\ \A k \in (n + 1)..(t[1] - 1) : path[k] \in Digits
            /\ t[1] > n + 1
            /\ path[t[1]] = "/"
            /\ path[t[2]] = "/"
            /\ \A k \in (t[1] + 1)..t[3] : ~IsSpace(path[k])
            /\ \A k \in (t[2] + 1)..t[3] : path[k] # "/"
            /\ (t[3] = Len(path) \/ IsSpace(path[t[3] + 1]))}

\* the line has five non-blank fields, the filing type wanted and a path of
\* the supported layout
Qualifies(line, types) ==
    LET f == NonBlankFields(line)
    IN  Len(f) = 5 /\ f[3] \in types /\ LayoutReadings(f[5]) # {}

\* the same with the fields counted as the line has them, blank or not
QualifiesRaw(line, types) ==
    LET raw == Split(line, "|")
    IN  /\ Len(raw) = 5
        /\ Trimmed(raw[3]) \in types
        /\ LayoutReadings(Trimmed(raw[5])) # {}

\* text padded on the left with zeros to ten characters
IsZeroPadded(padded, text) ==
    /\ Len(padded) = (IF Len(text) > 10 THEN Len(text) ELSE 10)
    /\ \A k \in 1..Len(padded) :
          padded[k] = IF k <= Len(padded) - Len(text)
                      THEN "0" ELSE text[k - (Len(padded) - Len(text))]

\* the entry carries the identifiers of the line
Carries(entry, line) ==
    LET f == NonBlankFields(line)
    IN  /\ IsZeroPadded(entry.cik, f[1])
        /\ entry.company_name = f[2]
        /\ entry.filing_date = f[4]
        /\ \E t \in LayoutReadings(f[5]) :
              /\ entry.accession = SubSeq(f[5], t[1] + 1, t[2] - 1)
              /\ entry.filename = SubSeq(f[5], t[2] + 1, t[3])

C10_AmendmentRowsAccepted ==
    pc = "parsed" =>
        Len(entries) = Cardinality({k \in DataRows :
                                       Qualifies(lines[k], {TargetType, <<"D", "/", "A">>})})

-----------------------------------------------------------------------------
(* Properties of the document parser and the writer *)

Range(q) == {q[k] : k \in 1..Len(q)}

\* every row the session holds or storage has
AllRows == db \cup flushed \cup Range(pending)

\* the entry whose document was requested last, and the response to it
LastEntry == entries[i]

LastDoc == DocResponse(upDocs, fetched[Len(fetched)])

\* the loop has just handled an entry without an exception
EntryHandled == pc = "sleep" /\ mode \in {"daily", "historical"}

\* a compact date YYYYMMDD as a calendar date
CompactToDate(t) ==
    <<NumVal(SubSeq(t, 1, 4)), NumVal(SubSeq(t, 5, 6)), NumVal(SubSeq(t, 7, 8))>>

\* C11: when the fetched, well-formed document has no acceptance timestamp,
\* the record gets the index entry's filing date and is not rejected: once
\* the entry is handled a row with that cik and date exists.
C11_IndexDateFallback ==
    (EntryHandled /\ LastDoc.status = 200 /\ LastDoc.wellformed
                  /\ ~LastDoc.acceptanceDateTime.present) =>
        \E r \in AllRows :
            /\ r.cik = LastEntry.cik
            /\ r.filing_date = CompactToDate(LastEntry.filing_date)

\* the raise amount the document of a row calls for
ExpectedRaise(doc) ==
    IF doc.totalOfferingAmount.present THEN Strip(doc.totalOfferingAmount.text)
    ELSE IF doc.minimumInvestment.present THEN Strip(doc.minimumInvestment.text)
    ELSE <<"Unknown">>

\* C12: a record's raise amount is the document's total offering amount when
\* it has one, else its minimum investment when it has one, else "Unknown".
C12_RaiseAmountFallback ==
    \A r \in AllRows :
        r.raise_amount = ExpectedRaise(DocResponse(upDocs, r.raw_xml_url))

\* records that lack an identity field: no cik key, an empty cik, a None
\* filing date, and the dict left by a document that did not parse
InvalidRecords ==
    {[filing_date |-> Day15, company_name |-> <<"Acme">>, raise_amount |-> <<>>,
      raw_xml_url |-> UrlA],
     [cik |-> <<>>, filing_date |-> Day15, company_name |-> <<"Acme">>,
      raise_amount |-> <<>>, raw_xml_url |-> UrlA],
     [cik |-> zfill(Cik42, 10), filing_date |-> NoneVal,
      company_name |-> <<"Acme">>, raise_amount |-> <<>>, raw_xml_url |-> UrlA],
     [cik |-> zfill(Cik42, 10)]}

\* C13: insert_if_new returns not-inserted for a record without cik or
\* without filing date and leaves the session as it was, whatever the session
\* holds; and no row, stored or staged, lacks its cik or its filing date.
C13_InvalidRecordRejected ==
    /\ \A data \in InvalidRecords :
          insert_if_new(db, flushed, pending, data) =
              [exc |-> "none", flushed |-> flushed, pending |-> pending,
               result |-> FALSE]
    /\ \A r \in AllRows : Truthy(r.cik) /\ Truthy(r.filing_date)

\* a run has just handled a document that gave no filing date while a record
\* staged before it is still pending
C13_Witness ==
    /\ EntryHandled
    /\ LastDoc.status = 200
    /\ ~Truthy(Get(ResolvedAt(fetched[Len(fetched)]).value, "filing_date"))
    /\ pending # <<>>

\* the response to the document request of the entry the loop is at
NextDoc ==
    DocResponse(upDocs, doc_url(entries[i].cik, entries[i].accession,
                                entries[i].filename))

AtEntry == pc = "loop" /\ i <= Len(entries)

SessionUntouched ==
    /\ flushed' = flushed
    /\ pending' = pending
    /\ count' = count
    /\ stagedLog' = stagedLog
    /\ db' = db

\* every record staged by the invocation is stored
StagedAreStored ==
    \A t \in stagedLog : \E r \in db : r.cik = t[2] /\ r.filing_date = t[3]

\* C14: a fetched document that is not well-formed stages nothing and raises
\* nothing: the loop goes on to the throttle delay and the next entry, and a
\* run in which nothing was raised commits what the other entries staged.
C14_MalformedDocumentSkipped ==
    /\ [][(AtEntry /\ NextDoc.status = 200 /\ ~NextDoc.wellformed
                   /\ raised' # "ConnectionError") =>
             (pc' = "sleep" /\ raised' = "none" /\ SessionUntouched)]_vars
    /\ []((pc = "done" /\ raised = "none") => (outcome = "commit" /\ StagedAreStored))

\* a committed run that stored a record after an earlier entry's document
\* had turned out malformed
C14_Witness ==
    /\ pc = "done" /\ mode = "daily" /\ outcome = "commit" /\ db # db0
    /\ \E k \in 1..(Len(fetched) - 1) :
          /\ DocResponse(upDocs, fetched[k]).status = 200
          /\ ~DocResponse(upDocs, fetched[k]).wellformed


IndexNow == IndexResponse(upIndex, IndexUrlOf(current))

NothingFetchedOrStaged == SessionUntouched /\ fetched' = fetched

\* C15: when the index request of a date answers with a status other than
\* 200, the run of that date fetches no document and stages nothing, raises
\* nothing and returns with storage as it was; the caller then goes on, a
\* backfill to the next date of the window and a daily run to its commit.
C15_IndexStatusMeansNothingToDo ==
    /\ [][(pc = "fetch_index" /\ IndexNow.status # 200
                              /\ raised' # "ConnectionError") =>
             (/\ pc' = "returned"
              /\ report' = "fetch_fail"
              /\ raised' = "none"
              /\ NothingFetchedOrStaged)]_vars
    /\ [][(pc = "returned" /\ report = "fetch_fail") =>
             (/\ raised' = "none"
              /\ NothingFetchedOrStaged
              /\ IF mode = "historical" /\ DateLess(NextDay(current), today)
                 THEN pc' = "fetch_index" /\ current' = NextDay(current)
                 ELSE pc' = "commit")]_vars
    /\ []((mode = "daily" /\ report = "fetch_fail") =>
             (/\ fetched = <<>>
              /\ stagedLog = {}
              /\ flushed = {}
              /\ pending = <<>>
              /\ raised = "none"
              /\ db = db0
              /\ (pc = "done" => outcome = "commit")))

\* a committed backfill whose first date had no index and which stored a
\* record of a later date
C15_Witness ==
    /\ pc = "done"
    /\ mode = "historical"
    /\ outcome = "commit"
    /\ IndexResponse(upIndex, IndexUrlOf(MinusDays(TodayDate, HistoryDays))).status # 200
    /\ MinusDays(TodayDate, HistoryDays) \in attempted
    /\ \E t \in stagedLog :
          /\ DateLess(MinusDays(TodayDate, HistoryDays), t[1])
          /\ \E r \in db : r.cik = t[2] /\ r.filing_date = t[3]

DuplicateDetected == pc = "loop" /\ pc' = "sleep" /\ count' = count

\* the rows the session holds, apart from the id an INSERT gives them
SessionRows == {[r EXCEPT !.id = 0] : r \in flushed \cup Range(pending)}

\* C16: the writer only adds rows. A stored row is never changed or removed
\* by any step, so what storage held when a run began is still there, field
\* for field, whenever it ends; an entry found to be a duplicate leaves the
\* rows of storage and of the session as they are; and every row the writer
\* creates has processed = false and ai_score = 0.
C16_WriterOnlyAdds ==
    /\ [][db \subseteq db']_vars
    /\ [][DuplicateDetected => (SessionRows' = SessionRows /\ db' = db)]_vars
    /\ [](db0 \subseteq db)
    /\ [](\A r \in AllRows : r.processed = FALSE /\ r.ai_score = 0)

\* a committed run over non-empty storage that met a stored filing again
\* and added another one
C16_Witness ==
    /\ pc = "done"
    /\ mode = "daily"
    /\ outcome = "commit"
    /\ db0 # {}
    /\ db # db0
    /\ db0 \subseteq db
    /\ \E k \in 1..Len(fetched) :
          /\ Resolves(fetched[k])
          /\ \E r \in db0 : /\ r.cik = entries[k].cik
                            /\ r.filing_date = Get(ResolvedAt(fetched[k]).value,
                                                   "filing_date")

UrlOfEntry(k) == doc_url(entries[k].cik, entries[k].accession, entries[k].filename)

DateOfEntry(k) == Get(ResolvedAt(UrlOfEntry(k)).value, "filing_date")

Insertable(k) == Resolves(UrlOfEntry(k)) /\ Truthy(DateOfEntry(k)) /\ Truthy(entries[k].cik)

\* entry k of the index at hand names the filing that entry i names
SamePair(k) ==
    /\ Insertable(k)
    /\ Insertable(i)
    /\ entries[k].cik = entries[i].cik
    /\ DateOfEntry(k) = DateOfEntry(i)

HeldFor(k) == {r \in AllRows : r.cik = entries[k].cik /\ r.filing_date = DateOfEntry(k)}

\* C17: the existence check of insert_if_new sees what the same run has
\* staged. An entry whose (cik, filing date) no row yet carries is staged
\* and counted; a later entry of the same index that resolves to the pair of
\* an earlier one is neither staged nor counted; the commit never fails on
\* the uniqueness constraint, and after it storage holds exactly one row
\* for every pair the run staged.
C17_CheckSeesStagedRows ==
    /\ [][(AtEntry /\ Insertable(i) /\ HeldFor(i) = {}
                   /\ raised' # "ConnectionError") =>
             (/\ pc' = "sleep"
              /\ count' = count + 1
              /\ Len(pending') = 1
              /\ pending'[1].cik = entries[i].cik
              /\ pending'[1].filing_date = DateOfEntry(i))]_vars
    /\ [][(AtEntry /\ (\E k \in 1..(i - 1) : SamePair(k))
                   /\ raised' # "ConnectionError") =>
             (/\ pc' = "sleep"
              /\ raised' = "none"
              /\ count' = count
              /\ stagedLog' = stagedLog
              /\ pending' = <<>>
              /\ Cardinality(HeldFor(i)') = 1)]_vars
    /\ [](raised # "IntegrityError")
    /\ []((pc = "done" /\ outcome = "commit") =>
             \A t \in stagedLog :
                Cardinality({r \in db : r.cik = t[2] /\ r.filing_date = t[3]}) = 1)

\* a committed run over empty storage whose index named one filing twice:
\* one entry counted, one row stored
C17_Witness ==
    /\ pc = "done"
    /\ mode = "daily"
    /\ outcome = "commit"
    /\ db0 = {}
    /\ Len(entries) = 2
    /\ Len(fetched) = 2
    /\ fetched[1] # fetched[2]
    /\ Resolves(fetched[1])
    /\ Resolves(fetched[2])
    /\ entries[1].cik = entries[2].cik
    /\ Truthy(Get(ResolvedAt(fetched[1]).value, "filing_date"))
    /\ Get(ResolvedAt(fetched[1]).value, "filing_date")
          = Get(ResolvedAt(fetched[2]).value, "filing_date")
    /\ count = 1
    /\ Cardinality(db) = 1

\* the documents requested so far are those of the first entries of the
\* index, in the order of the index
FetchedInIndexOrder ==
    /\ Len(fetched) <= Len(entries)
    /\ \A k \in 1..Len(fetched) : fetched[k] = UrlOfEntry(k)

AllEntriesAttempted == Len(fetched) = Len(entries) /\ i = Len(entries) + 1

\* C18: a single-date run handles the entries of its index one at a time
\* and in order, each with its fetch, parse and insert followed by the
\* pause; it commits only when every entry of the index has been handled;
\* it ends in exactly one of commit and rollback, and the session is closed
\* after that and not before.
C18_SequentialCommitLast ==
    /\ [](mode = "daily" =>
             (/\ FetchedInIndexOrder
              /\ (pc = "loop" => (Len(fetched) = i - 1 /\ ~unthrottled))
              /\ (pc = "sleep" => (Len(fetched) = i /\ unthrottled))))
    /\ [][(mode = "daily" /\ pc = "loop" /\ pc' \in {"sleep", "except"}) =>
             (i <= Len(entries) /\ fetched' = Append(fetched, UrlOfEntry(i)))]_vars
    /\ [][pc = "sleep" => (pc' = "loop" /\ i' = i + 1 /\ fetched' = fetched)]_vars
    /\ []((mode = "daily" /\ (pc = "commit" \/ outcome = "commit")) =>
             (raised = "none" /\ (report = "fetch_fail" \/ AllEntriesAttempted)))
    /\ [](pc = "done" => (outcome \in {"commit", "rollback"} /\ closed))
    /\ [](closed => (pc = "done" /\ flushed = {} /\ pending = <<>>))
    /\ [][outcome # "none" =>
             (outcome' = outcome \/ (pc = "done" /\ outcome' = "none"))]_vars
    /\ [][outcome' # outcome => (pc' = "close" \/ (pc = "done" /\ ~closed'))]_vars

\* a closed, committed run of one date whose index had two entries
C18_Witness ==
    /\ pc = "done"
    /\ mode = "daily"
    /\ outcome = "commit"
    /\ closed
    /\ report = "added"
    /\ Len(entries) = 2
    /\ AllEntriesAttempted
    /\ fetched = <<UrlOfEntry(1), UrlOfEntry(2)>>

\* C19: when the request of an entry's document answers with a status other
\* than 200, the entry stages nothing and is not counted, the pause is still
\* made before the next entry, no row ever comes from such a document, and
\* a run in which nothing is raised reaches the end of its index and
\* commits.
C19_DocumentStatusSkipsEntry ==
    /\ [][(AtEntry /\ NextDoc.status # 200 /\ raised' # "ConnectionError") =>
             (/\ pc' = "sleep"
              /\ i' = i
              /\ unthrottled'
              /\ raised' = raised
              /\ SessionUntouched)]_vars
    /\ [][(pc = "sleep" /\ unthrottled) =>
             (pc' = "loop" /\ i' = i + 1 /\ ~unthrottled' /\ SessionUntouched)]_vars
    /\ [](\A r \in AllRows : DocResponse(upDocs, r.raw_xml_url).status = 200)
    /\ []((mode = "daily" /\ pc = "done" /\ report = "added" /\ raised = "none") =>
             (outcome = "commit" /\ Len(fetched) = Len(entries) /\ StagedAreStored))

\* a committed run that stored the filing of an entry which came after an
\* entry whose document was not found
C19_Witness ==
    /\ pc = "done"
    /\ mode = "daily"
    /\ outcome = "commit"
    /\ count = 1
    /\ Len(fetched) = 2
    /\ DocResponse(upDocs, fetched[1]).status # 200
    /\ \E r \in db \ db0 : r.raw_xml_url = fetched[2]

-----------------------------------------------------------------------------
(* The response cache of the read API (nexthor_main.py).  A Python value   *)
(* is a record of its type and its text: None, a str, or an int written in *)
(* decimal.  Keyword arguments are a function from parameter names.        *)

PyNone == [t |-> "None", v |-> <<>>]

PyStr(s) == [t |-> "str", v |-> s]

RECURSIVE Decimal(_)
Decimal(n) == IF n < 10 THEN <<DigitChar(n)>>
              ELSE Append(Decimal(n \div 10), DigitChar(n % 10))

PyInt(n) == [t |-> "int", v |-> Decimal(n)]

\* str(v)
str(v) == IF v.t = "None" THEN <<"N", "o", "n", "e">> ELSE v.v

\* bool(v) of a str or None
PyTruthy(v) == v.t # "None" /\ v.v # <<>>

CACHE_DURATION == 5 * 60

\* the parameter names of the cached endpoints, in sorted() order
SortedNames == <<"industry", "limit", "min_score", "year">>

\* sorted(kwargs.items()), the names only
sorted_keys(kwargs) == SelectSeq(SortedNames, LAMBDA n : n \in DOMAIN kwargs)

\* "|".join(parts)
RECURSIVE Join(_)
Join(parts) == IF Len(parts) = 0 THEN <<>>
               ELSE IF Len(parts) = 1 THEN parts[1]
               ELSE parts[1] \o <<"|">> \o Join(Tail(parts))

\* the md5 hex digest is taken to be free of collisions and is stood for by
\* the text it is computed from
create_cache_key(func_name, kwargs) ==
    LET names == sorted_keys(kwargs)
        key_parts == <<(<<func_name>>)>> \o
                     [k \in 1..Len(names) |->
                         <<names[k], "=">> \o str(kwargs[names[k]])]
    IN  Join(key_parts)

\* what the endpoint asks the database: the statement and its parameters
QueryOf(func_name, kwargs) ==
    IF func_name = "latest_filings"
    THEN <<"latest", str(kwargs["limit"])>>
    ELSE IF func_name = "high_burn_leads"
    THEN IF PyTruthy(kwargs["industry"])
         THEN <<"leads_like", str(kwargs["min_score"]),
                <<"%">> \o kwargs["industry"].v \o <<"%">> >>
         ELSE <<"leads", str(kwargs["min_score"])>>
    ELSE <<"pie">>

\* the wrapped endpoint: the rows of its query, or its error dict when the
\* database does not answer
endpoint(func_name, kwargs, be) ==
    IF be = "down" THEN <<"error">> ELSE <<"rows", QueryOf(func_name, kwargs)>>

DefaultLimit == 10

DefaultMinScore == 70

Calls ==
    { [func |-> "latest_filings", kwargs |-> [limit |-> PyInt(DefaultLimit)]],
      [func |-> "high_burn_leads",
       kwargs |-> [min_score |-> PyInt(DefaultMinScore), industry |-> PyNone]],
      [func |-> "high_burn_leads",
       kwargs |-> [min_score |-> PyInt(DefaultMinScore),
                   industry |-> PyStr(<<"N", "o", "n", "e">>)]],
      [func |-> "security_pie", kwargs |-> [year |-> PyStr(<<"a", "l", "l">>)]] }

MaxNow == 600

TickChoices == {CACHE_DURATION - 1, CACHE_DURATION}

InitCache ==
    /\ upIndex = <<>>
    /\ upDocs = <<>>
    /\ db = {}
    /\ flushed = {}
    /\ pending = <<>>
    /\ pc = "api"
    /\ mode = "api"
    /\ current = NoneVal
    /\ today = TodayDate
    /\ entries = <<>>
    /\ i = 1
    /\ count = 0
    /\ lines = <<>>
    /\ report = "none"
    /\ raised = "none"
    /\ failedAt = "none"
    /\ outcome = "none"
    /\ closed = FALSE
    /\ db0 = {}
    /\ fetched = <<>>
    /\ unthrottled = FALSE
    /\ stagedLog = {}
    /\ attempted = {}
    /\ prev = NoneVal
    /\ CacheIdle

\* wrapper(**kwargs) of cache_response
CachedCall ==
    /\ pc = "api"
    /\ \E c \in Calls :
          LET cache_key == create_cache_key(c.func, c.kwargs)
              held      == cache_key \in DOMAIN cache_store
              timestamp == cache_store[cache_key][2]
              result    == endpoint(c.func, c.kwargs, backend)
          IN  IF held /\ clock - timestamp < CACHE_DURATION
              THEN /\ last' = [func |-> c.func, kwargs |-> c.kwargs,
                               invoked |-> FALSE,
                               result |-> cache_store[cache_key][1],
                               age |-> clock - timestamp]
                   /\ UNCHANGED <<cache_store, origin>>
              ELSE /\ cache_store' = SetItem(cache_store, cache_key, <<result, clock>>)
                   /\ origin' = SetItem(origin, cache_key, c)
                   /\ last' = [func |-> c.func, kwargs |-> c.kwargs,
                               invoked |-> TRUE, result |-> result, age |-> 0]
    /\ UNCHANGED <<clock, backend>>
    /\ UNCHANGED ingestVars

\* time passes between two requests
Tick ==
    /\ pc = "api"
    /\ \E d \in TickChoices : clock + d <= MaxNow /\ clock' = clock + d
    /\ last' = NoCall
    /\ UNCHANGED <<cache_store, origin, backend>>
    /\ UNCHANGED ingestVars

\* the database stops or starts answering: pd.read_sql raises or returns
BackendChange ==
    /\ pc = "api"
    /\ backend' = IF backend = "up" THEN "down" ELSE "up"
    /\ last' = NoCall
    /\ UNCHANGED <<cache_store, origin, clock>>
    /\ UNCHANGED ingestVars

NextCache ==
    \/ CachedCall
    \/ Tick
    \/ BackendChange

SpecCache == InitCache /\ [][NextCache]_vars

\* the step serves a call of a cached endpoint
Served == pc = "api" /\ clock' = clock /\ backend' = backend /\ last'.func # "none"

\* the cache holds an entry younger than CACHE_DURATION that was stored by
\* a call of this function with these keyword arguments
FreshEntryFor(func_name, kwargs) ==
    \E k \in DOMAIN cache_store :
        /\ origin[k].func = func_name
        /\ origin[k].kwargs = kwargs
        /\ clock - cache_store[k][2] < CACHE_DURATION

\* C20: a call of a cached endpoint is answered from the cache, without the
\* endpoint being run, exactly when the cache holds an entry of the same
\* function name and keyword arguments younger than CACHE_DURATION;
\* otherwise the endpoint is run once and its result, an error result too,
\* is stored under the call's key with the current time; and no answer
\* older than CACHE_DURATION is served.
C20_CacheHitIffFreshEntryOfSameCall ==
    /\ [][Served =>
             (/\ ~last'.invoked <=> FreshEntryFor(last'.func, last'.kwargs)
              /\ ~last'.invoked => cache_store' = cache_store
              /\ last'.invoked =>
                    (/\ last'.result = endpoint(last'.func, last'.kwargs, backend)
                     /\ cache_store'[create_cache_key(last'.func, last'.kwargs)]
                           = <<last'.result, clock>>))]_vars
    /\ []((last.func # "none" /\ ~last.invoked) => last.age < CACHE_DURATION)

====
